---- MODULE Spec2Model ----
(***************************************************************************)
(* The read phase of dbt's parser (core/dbt/parser/read_files.py): file    *)
(* discovery per project and parse type, content hashing, the schema-file  *)
(* reuse decision against the saved manifest, the big-seed rule, the       *)
(* minimal yaml validation, and the files / project_parser_files           *)
(* dictionaries that the phase fills.                                      *)
(*                                                                         *)
(* Text is a sequence of one-character tokens: " " is whitespace, "K" is   *)
(* a block of MAXIMUM_SEED_SIZE bytes, every other token is one byte.      *)
(* A directory is a sequence of path components.                           *)
(***************************************************************************)
EXTENDS Integers, Sequences, FiniteSets, TLC

\* Bounds of the model.
MaxRuns == 3
MaxEdits == 1
MaxMTime == 2

VARIABLES
    tree,                  \* the file system: disk file -> [present, raw, mtime, readable]
    saved_files,           \* ReadFilesFromFileSystem.saved_files (previous manifest's files)
    files,                 \* ReadFilesFromFileSystem.files (the Registry)
    project_parser_files,  \* ReadFilesFromFileSystem.project_parser_files (the Catalog)
    pc,                    \* position of read_files: idle/project/parser/insert/done/failed
    proj,                  \* index of the project being read (loop of read_files)
    ft,                    \* index of the parse type being read (loop of read_files_for_project)
    ext,                   \* index of the extension being read (loop of read_files_for_parser)
    source_files,          \* read_files_for_parser: records of the batch not yet inserted
    parser_files,          \* read_files_for_parser: the local list parser_files
    trans,                 \* per schema file of this run: "Reused" or "Reloaded"
    error,                 \* the ParsingError / read error that ended the run, if any
    runs,                  \* number of read phases started
    edits,                 \* number of file-system edits made
    snap,                  \* the run whose files saved_files holds (0: none)
    last,                  \* the latest completed run: its number, snap, checksums, tree, trans
    before,                \* the completed run before that one
    ydoc,                  \* validate_yaml harness: the document under validation
    yres                   \* validate_yaml harness: the outcome

vars == <<tree, saved_files, files, project_parser_files, pc, proj, ft, ext,
          source_files, parser_files, trans, error, runs, edits, snap, last, before, ydoc, yres>>

runvars == <<tree, saved_files, files, project_parser_files, pc, proj, ft, ext,
             source_files, parser_files, trans, error, runs, edits, snap, last, before>>

(***************************************************************************)
(* Text, hashing, sizes                                                    *)
(***************************************************************************)
\* Size threshold of a seed file, in bytes.
MAXIMUM_SEED_SIZE == 1048576

RECURSIVE lstrip(_)
lstrip(s) == IF s # <<>> /\ Head(s) = " " THEN lstrip(Tail(s)) ELSE s

RECURSIVE rstrip(_)
rstrip(s) ==
    IF s # <<>> /\ s[Len(s)] = " " THEN rstrip(SubSeq(s, 1, Len(s) - 1)) ELSE s

\* str.strip(): leading and trailing whitespace removed.
strip(s) == rstrip(lstrip(s))

RECURSIVE file_size(_)
file_size(s) ==
    IF s = <<>> THEN 0
    ELSE (IF Head(s) = "K" THEN MAXIMUM_SEED_SIZE ELSE 1) + file_size(Tail(s))

\* FileHash.empty(): the "not computed" value.
FileHash_empty == [name |-> "none", checksum |-> <<>>]

\* FileHash.from_contents(): a digest of the raw bytes (collision-free here).
FileHash_from_contents(raw) == [name |-> "sha256", checksum |-> <<"sha256:">> \o raw]

\* contents of a record that never had contents assigned (Python None).
NoContents == <<"<None>">>

\* Python truthiness of SourceFile.contents.
HasContents(c) == c # NoContents /\ c # <<>>

(***************************************************************************)
(* Parsed yaml documents                                                   *)
(***************************************************************************)
\* The recognized top-level keys of a schema file.
schema_file_keys ==
    <<"models", "seeds", "snapshots", "sources", "macros", "analyses",
      "exposures", "metrics">>

\* Top-level keys the modelled documents may carry ("vars" is not recognized).
DocKeys == {"models", "sources", "vars"}

\* A value of a top-level key: absent, a list of elements, a mapping or a scalar.
\* A list element is "str" (not a dictionary), "dict" (a dictionary without
\* name) or "named" (a dictionary with a name key).
Absent == [kind |-> "absent", elems |-> <<>>]
ListOf(es) == [kind |-> "list", elems |-> es]
Mapping == [kind |-> "dict", elems |-> <<>>]
Scalar == [kind |-> "str", elems |-> <<>>]

\* A document: version is 0 when the version key is missing.
Doc(v, m, s, x) ==
    [version |-> v, top |-> [k \in DocKeys |->
        CASE k = "models" -> m [] k = "sources" -> s [] OTHER -> x]]

\* None, and the empty dictionary: what a file without yaml content parses to.
EmptyDoc == Doc(0, Absent, Absent, Absent)

KeyIn(k, dct) == k \in DOMAIN dct.top /\ dct.top[k].kind # "absent"

\* Python truthiness of a parsed document.
DocTruthy(dct) == dct.version # 0 \/ \E k \in DOMAIN dct.top : KeyIn(k, dct)

\* check_format_version: only version 2 is accepted.
check_format_version(dct) == dct.version = 2

NoError ==
    [raised |-> FALSE, file_path |-> [dir |-> <<>>, name |-> "", ext |-> ""],
     key |-> "", rule |-> ""]
ParsingError(fp, k, r) == [raised |-> TRUE, file_path |-> fp, key |-> k, rule |-> r]

\* validate_elements looking at the first element only.
validate_elements_first_only(file_path, key, es) ==
    IF es = <<>> \/ Head(es) = "named" THEN NoError
    ELSE IF Head(es) = "str"
         THEN ParsingError(file_path, key, "a list element is not a dictionary")
    ELSE ParsingError(file_path, key, "a list element does not have a name attribute")

\* The check of one list: the first broken element decides the message.
RECURSIVE validate_elements(_, _, _)
validate_elements(file_path, key, es) ==
    IF es = <<>> THEN NoError
    ELSE IF Head(es) = "str"
         THEN ParsingError(file_path, key, "a list element is not a dictionary")
    ELSE IF Head(es) # "named"
         THEN ParsingError(file_path, key, "a list element does not have a name attribute")
    ELSE validate_elements(file_path, key, Tail(es))

\* The loop over schema_file_keys, from index i on.
RECURSIVE validate_keys(_, _, _)
validate_keys(file_path, dct, i) ==
    IF i > Len(schema_file_keys) THEN NoError
    ELSE LET key == schema_file_keys[i] IN
         IF KeyIn(key, dct)
         THEN IF dct.top[key].kind # "list"
              THEN ParsingError(file_path, key, "the value is not a list")
              ELSE LET e == validate_elements(file_path, key, dct.top[key].elems) IN
                   IF e.raised THEN e ELSE validate_keys(file_path, dct, i + 1)
         ELSE validate_keys(file_path, dct, i + 1)

\* A validation that checks the version only.
validate_yaml_version_only(file_path, dct) ==
    IF ~check_format_version(dct)
    THEN ParsingError(file_path, "version", "the version is not supported")
    ELSE NoError

validate_yaml(file_path, dct) ==
    IF ~check_format_version(dct)
    THEN ParsingError(file_path, "version", "the version is not supported")
    ELSE validate_keys(file_path, dct, 1)

\* yaml_from_file: the document a (stripped) schema file's text parses to.
yaml_from_file(contents) ==
    CASE contents = <<"A">> -> Doc(2, ListOf(<<"named">>), Absent, Absent)
      [] contents = <<"B">> -> Doc(2, ListOf(<<"named", "named">>), Absent, Mapping)
      [] contents = <<"X">> -> Doc(2, Mapping, Absent, Absent)
      [] contents = <<"V">> -> Doc(1, ListOf(<<"named">>), Absent, Absent)
      [] contents = <<"E">> -> Doc(2, ListOf(<<"named">>), ListOf(<<"str">>), Absent)
      [] contents = <<"N">> -> Doc(2, ListOf(<<"named", "dict">>), Absent, Absent)
      [] OTHER -> EmptyDoc

(***************************************************************************)
(* Projects and the file system                                            *)
(***************************************************************************)
EmptyMap == [x \in {} |-> x]

\* Project.generic_test_paths: the directory "generic" of every test path.
generic_test_paths(test_paths) ==
    [i \in 1..Len(test_paths) |-> test_paths[i] \o <<"generic">>]

\* Project.all_source_paths.
all_source_paths(model_paths, seed_paths, snapshot_paths, analysis_paths, macro_paths) ==
    model_paths \o seed_paths \o snapshot_paths \o analysis_paths \o macro_paths

Project(name, model_paths, test_paths) ==
    [project_name |-> name,
     macro_paths |-> << <<"macros">> >>,
     model_paths |-> model_paths,
     snapshot_paths |-> << <<"snapshots">> >>,
     analysis_paths |-> << <<"analyses">> >>,
     test_paths |-> test_paths,
     generic_test_paths |-> generic_test_paths(test_paths),
     seed_paths |-> << <<"seeds">> >>,
     docs_paths |-> << <<"docs">> >>,
     all_source_paths |->
        all_source_paths(model_paths, << <<"seeds">> >>, << <<"snapshots">> >>,
                         << <<"analyses">> >>, << <<"macros">> >>)]

\* ReadFilesFromFileSystem.all_projects, in iteration order: the root project
\* with two model directories, and a dependency whose second test directory
\* lies inside its first.
all_projects ==
    << Project("root", << <<"models">>, <<"models2">> >>, << <<"tests">> >>),
       Project("dep", << <<"models">> >>, << <<"tests">>, <<"tests", "sub">> >>) >>

\* all_projects[name]
ProjectNamed(name) == CHOOSE P \in {all_projects[i] : i \in 1..Len(all_projects)} :
                          P.project_name = name

\* A file of the disk: the project it lies in, its directory below the project
\* root, its name and its extension.
DiskFile(p, d, n, e) == [project |-> p, dir |-> d, name |-> n, ext |-> e]

\* The files that may exist, in the order a directory walk meets them.
WalkOrder ==
    << DiskFile("root", <<"models">>, "m", ".sql"),
       DiskFile("root", <<"models">>, "n", ".py"),
       DiskFile("root", <<"models">>, "s", ".yml"),
       DiskFile("root", <<"models2">>, "a", ".sql"),
       DiskFile("root", <<"seeds">>, "d", ".csv"),
       DiskFile("root", <<"tests">>, "t", ".sql"),
       DiskFile("root", <<"tests", "generic">>, "g", ".sql"),
       DiskFile("dep", <<"tests", "sub", "generic">>, "h", ".sql") >>

Universe == {WalkOrder[i] : i \in 1..Len(WalkOrder)}

MTimes == 0..MaxMTime

IsPrefix(r, d) == Len(r) <= Len(d) /\ SubSeq(d, 1, Len(r)) = r

\* FilePath, as filesystem_search builds it for a file found below searched_path.
FilePath(f, searched_path) ==
    [searched_path |-> searched_path,
     relative_dir |-> SubSeq(f.dir, Len(searched_path) + 1, Len(f.dir)),
     name |-> f.name,
     ext |-> f.ext,
     modification_time |-> tree[f].mtime,
     project_root |-> f.project]

\* FilePath.original_file_path: searched_path joined with relative_path.
original_file_path(path) ==
    [dir |-> path.searched_path \o path.relative_dir, name |-> path.name, ext |-> path.ext]

\* FilePath.absolute_path, as the disk file it names.
absolute_path(path) ==
    DiskFile(path.project_root, path.searched_path \o path.relative_dir, path.name, path.ext)

\* BaseSourceFile.file_id: project_name "://" original_file_path.
file_id(project_name, path) == <<project_name, original_file_path(path)>>

\* The files one root directory yields for an extension, in walk order.
search_root(project, root, extension) ==
    LET found == SelectSeq(WalkOrder, LAMBDA f :
                    /\ f.project = project.project_name
                    /\ tree[f].present
                    /\ f.ext = extension
                    /\ IsPrefix(root, f.dir))
    IN [i \in 1..Len(found) |-> FilePath(found[i], root)]

\* filesystem_search: the root directories in their order (no .dbtignore).
RECURSIVE filesystem_search(_, _, _)
filesystem_search(project, paths, extension) ==
    IF paths = <<>> THEN <<>>
    ELSE search_root(project, Head(paths), extension)
            \o filesystem_search(project, Tail(paths), extension)

\* FilePath.seed_too_large.
seed_too_large(path) == file_size(tree[absolute_path(path)].raw) > MAXIMUM_SEED_SIZE

ReadError(path) ==
    [raised |-> TRUE, file_path |-> original_file_path(path), key |-> "",
     rule |-> "cannot read"]

(***************************************************************************)
(* Loading one file                                                        *)
(***************************************************************************)
SourceFile(path, checksum, parse_file_type, project_name) ==
    [path |-> path, checksum |-> checksum, parse_file_type |-> parse_file_type,
     project_name |-> project_name, contents |-> NoContents]

SchemaSourceFile(path, checksum, parse_file_type, project_name) ==
    [path |-> path, checksum |-> checksum, parse_file_type |-> parse_file_type,
     project_name |-> project_name, contents |-> NoContents, dfy |-> EmptyDoc]

\* The reuse decision without the test for the modification time 0.
skip_loading_schema_file_zero_ok(path, parse_file_type, project_name, saved) ==
    /\ parse_file_type = "Schema"
    /\ file_id(project_name, path) \in DOMAIN saved
    /\ saved[file_id(project_name, path)].path.modification_time = path.modification_time

\* The reuse decision without the comparison of the modification times.
skip_loading_schema_file_any_mtime(path, parse_file_type, project_name, saved) ==
    /\ parse_file_type = "Schema"
    /\ file_id(project_name, path) \in DOMAIN saved
    /\ path.modification_time # 0

\* The reuse decision of load_source_file.
skip_loading_schema_file(path, parse_file_type, project_name, saved) ==
    /\ parse_file_type = "Schema"
    /\ DOMAIN saved # {}
    /\ file_id(project_name, path) \in DOMAIN saved
    /\ path.modification_time # 0
    /\ saved[file_id(project_name, path)].path.modification_time = path.modification_time

\* A load from disk that hashes the stripped text.
loaded_from_disk_hash_stripped(source_file, raw) ==
    [source_file EXCEPT !.checksum = FileHash_from_contents(strip(raw)),
                        !.contents = strip(raw)]

\* A load from disk whose checksum takes in the modification time.
loaded_from_disk_hash_with_mtime(source_file, raw) ==
    [source_file EXCEPT
        !.checksum = FileHash_from_contents(
                        raw \o <<ToString(source_file.path.modification_time)>>),
        !.contents = strip(raw)]

\* The checksum and contents a load from disk assigns.
loaded_from_disk(source_file, raw) ==
    [source_file EXCEPT !.checksum = FileHash_from_contents(raw),
                        !.contents = strip(raw)]

\* A reuse that takes over the parsed data only.
reused_from_saved_dfy_only(source_file, old_source_file) ==
    [source_file EXCEPT !.dfy = old_source_file.dfy]

\* The checksum and parsed data taken over from the saved record.
reused_from_saved(source_file, old_source_file) ==
    [source_file EXCEPT !.checksum = old_source_file.checksum,
                        !.dfy = old_source_file.dfy]

\* A tail of load_source_file that stores the parsed data unvalidated.
parse_schema_no_validation(source_file, parse_file_type) ==
    IF parse_file_type = "Schema" /\ HasContents(source_file.contents)
    THEN LET dfy == yaml_from_file(source_file.contents) IN
         IF DocTruthy(dfy)
         THEN [status |-> "ok", sf |-> [source_file EXCEPT !.dfy = dfy], err |-> NoError]
         ELSE [status |-> "none", sf |-> source_file, err |-> NoError]
    ELSE [status |-> "ok", sf |-> source_file, err |-> NoError]

\* What the tail of load_source_file returns for a loaded record: the record,
\* None ("none") or a ParsingError.
parse_schema(source_file, parse_file_type) ==
    IF parse_file_type = "Schema" /\ HasContents(source_file.contents)
    THEN LET dfy == yaml_from_file(source_file.contents) IN
         IF DocTruthy(dfy)
         THEN LET e == validate_yaml(original_file_path(source_file.path), dfy) IN
              IF e.raised
              THEN [status |-> "error", sf |-> source_file, err |-> e]
              ELSE [status |-> "ok", sf |-> [source_file EXCEPT !.dfy = dfy], err |-> NoError]
         ELSE [status |-> "none", sf |-> source_file, err |-> NoError]
    ELSE [status |-> "ok", sf |-> source_file, err |-> NoError]

\* A load that reads the text of a reused schema file all the same.
load_source_file_reading_reused(path, parse_file_type, project_name, saved) ==
    LET source_file ==
            IF parse_file_type = "Schema"
            THEN SchemaSourceFile(path, FileHash_empty, parse_file_type, project_name)
            ELSE SourceFile(path, FileHash_empty, parse_file_type, project_name)
        skip == skip_loading_schema_file(path, parse_file_type, project_name, saved)
        disk == tree[absolute_path(path)]
    IN  IF ~disk.readable
        THEN [status |-> "error", sf |-> source_file, err |-> ReadError(path)]
        ELSE IF skip
        THEN parse_schema(
                [reused_from_saved(source_file, saved[file_id(project_name, path)])
                    EXCEPT !.contents = strip(disk.raw)],
                parse_file_type)
        ELSE parse_schema(loaded_from_disk(source_file, disk.raw), parse_file_type)

load_source_file(path, parse_file_type, project_name, saved) ==
    LET source_file ==
            IF parse_file_type = "Schema"
            THEN SchemaSourceFile(path, FileHash_empty, parse_file_type, project_name)
            ELSE SourceFile(path, FileHash_empty, parse_file_type, project_name)
        skip == skip_loading_schema_file(path, parse_file_type, project_name, saved)
        disk == tree[absolute_path(path)]
    IN  IF skip
        THEN parse_schema(
                reused_from_saved(source_file, saved[file_id(project_name, path)]),
                parse_file_type)
        ELSE IF ~disk.readable
        THEN [status |-> "error", sf |-> source_file, err |-> ReadError(path)]
        ELSE parse_schema(loaded_from_disk(source_file, disk.raw), parse_file_type)

\* SourceFile.big_seed: the location only, no checksum computed, no contents.
big_seed(path) == [SourceFile(path, FileHash_empty, "Seed", "") EXCEPT !.contents = <<>>]

\* A seed load that takes every seed for a big seed.
load_seed_source_file_always_big(match, project_name) ==
    [status |-> "ok", err |-> NoError,
     sf |-> [big_seed(match) EXCEPT !.parse_file_type = "Seed",
                                    !.project_name = project_name]]

\* A seed load that takes a seed of exactly the threshold size for a big seed.
load_seed_source_file_big_at_threshold(match, project_name) ==
    LET disk == tree[absolute_path(match)] IN
    IF file_size(disk.raw) >= MAXIMUM_SEED_SIZE
    THEN [status |-> "ok", err |-> NoError,
          sf |-> [big_seed(match) EXCEPT !.parse_file_type = "Seed",
                                         !.project_name = project_name]]
    ELSE IF ~disk.readable
    THEN [status |-> "error", err |-> ReadError(match),
          sf |-> SourceFile(match, FileHash_empty, "Seed", project_name)]
    ELSE [status |-> "ok", err |-> NoError,
          sf |-> [SourceFile(match, FileHash_from_contents(disk.raw), "Seed", project_name)
                    EXCEPT !.contents = <<>>]]

load_seed_source_file(match, project_name) ==
    LET disk == tree[absolute_path(match)] IN
    IF seed_too_large(match)
    THEN [status |-> "ok", err |-> NoError,
          sf |-> [big_seed(match) EXCEPT !.parse_file_type = "Seed",
                                         !.project_name = project_name]]
    ELSE IF ~disk.readable
    THEN [status |-> "error", err |-> ReadError(match),
          sf |-> SourceFile(match, FileHash_empty, "Seed", project_name)]
    ELSE [status |-> "ok", err |-> NoError,
          sf |-> [SourceFile(match, FileHash_from_contents(disk.raw), "Seed", project_name)
                    EXCEPT !.contents = <<>>]]

\* A lookup that takes the looked-up records out of the dictionary.
saved_files_after_pop(saved, looked_up) ==
    [id \in DOMAIN saved \ looked_up |-> saved[id]]

\* saved_files after load_source_file has looked up the given identities:
\* the membership test and the subscript read the dictionary and assign
\* nothing in it or in its records.
saved_files_after(saved, looked_up) == saved

\* pathlib.Path(fp.relative_path).parts[0]
first_part(path) ==
    IF path.relative_dir # <<>> THEN Head(path.relative_dir) ELSE path.name

\* The singular-test pass leaves out what lies in a directory "generic".
skip_generic(path, parse_file_type) ==
    parse_file_type = "SingularTest" /\ first_part(path) = "generic"

\* The loop of get_source_files over fp_list; acc is [fb_list, trans, err], and
\* the loop ends at the first error.
RECURSIVE load_all(_, _, _, _, _)
load_all(fp_list, parse_file_type, project_name, saved, acc) ==
    IF fp_list = <<>> THEN acc
    ELSE LET fp == Head(fp_list)
             rest == Tail(fp_list)
         IN
         IF parse_file_type = "Seed"
         THEN LET r == load_seed_source_file(fp, project_name) IN
              IF r.status = "error" THEN [acc EXCEPT !.err = r.err]
              ELSE load_all(rest, parse_file_type, project_name, saved,
                            [acc EXCEPT !.fb_list = Append(@, r.sf)])
         ELSE IF skip_generic(fp, parse_file_type)
         THEN load_all(rest, parse_file_type, project_name, saved, acc)
         ELSE LET r == load_source_file(fp, parse_file_type, project_name, saved)
                  how == IF skip_loading_schema_file(fp, parse_file_type, project_name, saved)
                         THEN "Reused" ELSE "Reloaded"
                  seen == IF parse_file_type = "Schema"
                          THEN [acc EXCEPT !.trans = (file_id(project_name, fp) :> how) @@ @]
                          ELSE acc
              IN
              IF r.status = "error" THEN [seen EXCEPT !.err = r.err]
              ELSE IF r.status = "none"
              THEN load_all(rest, parse_file_type, project_name, saved, seen)
              ELSE load_all(rest, parse_file_type, project_name, saved,
                            [seen EXCEPT !.fb_list = Append(@, r.sf)])

get_source_files(project, paths, extension, parse_file_type, saved) ==
    load_all(filesystem_search(project, paths, extension), parse_file_type,
             project.project_name, saved,
             [fb_list |-> <<>>, trans |-> trans, err |-> NoError])

\* The parse types in the order of the dictionary of get_file_types_for_project.
ParseFileTypes ==
    <<"Macro", "Model", "Snapshot", "Analysis", "SingularTest", "GenericTest",
      "Seed", "Documentation", "Schema">>

get_file_types_for_project(project) ==
    [t \in {ParseFileTypes[i] : i \in 1..Len(ParseFileTypes)} |->
        CASE t = "Macro" ->
               [paths |-> project.macro_paths, extensions |-> <<".sql">>,
                parser |-> "MacroParser"]
          [] t = "Model" ->
               [paths |-> project.model_paths, extensions |-> <<".sql", ".py">>,
                parser |-> "ModelParser"]
          [] t = "Snapshot" ->
               [paths |-> project.snapshot_paths, extensions |-> <<".sql">>,
                parser |-> "SnapshotParser"]
          [] t = "Analysis" ->
               [paths |-> project.analysis_paths, extensions |-> <<".sql">>,
                parser |-> "AnalysisParser"]
          [] t = "SingularTest" ->
               [paths |-> project.test_paths, extensions |-> <<".sql">>,
                parser |-> "SingularTestParser"]
          [] t = "GenericTest" ->
               [paths |-> project.generic_test_paths, extensions |-> <<".sql">>,
                parser |-> "GenericTestParser"]
          [] t = "Seed" ->
               [paths |-> project.seed_paths, extensions |-> <<".csv">>,
                parser |-> "SeedParser"]
          [] t = "Documentation" ->
               [paths |-> project.docs_paths, extensions |-> <<".md">>,
                parser |-> "DocumentationParser"]
          [] OTHER ->
               [paths |-> project.all_source_paths, extensions |-> <<".yml", ".yaml">>,
                parser |-> "SchemaParser"]]

(***************************************************************************)
(* The read phase as a state machine                                       *)
(***************************************************************************)
\* Texts a file of the given extension may be written with.
RawsFor(f) ==
    IF f.ext = ".yml"
    THEN {<<" ">>, <<"#">>, <<"A">>, <<"A", " ">>, <<"B">>, <<"X">>, <<"V">>, <<"E">>, <<"N">>}
    ELSE IF f.ext = ".csv"
    THEN {<<"a">>, <<"K">>, <<"K", "a">>, <<"K", "b">>}
    ELSE {<<"a">>, <<"b">>}

\* Modification times a write may leave: any for a schema file; for the
\* others (whose modification time nothing reads) the old or the latest one.
MTimesFor(f) == IF f.ext = ".yml" THEN MTimes ELSE {tree[f].mtime, MaxMTime}

\* The files dictionary of the new, empty manifest a read phase is given.
new_manifest_files == EmptyMap

InitTree ==
    [f \in Universe |->
        [present |-> TRUE,
         raw |-> IF f.ext = ".yml" THEN <<"A">>
                 ELSE IF f.ext = ".csv" THEN <<"K", "a">> ELSE <<"a">>,
         mtime |-> 1,
         readable |-> TRUE]]

NoRun ==
    [run |-> 0, snap |-> 0, sums |-> EmptyMap, kinds |-> EmptyMap,
     saved_mtimes |-> EmptyMap, tree |-> InitTree, trans |-> EmptyMap]

InitRun ==
    /\ tree = InitTree
    /\ saved_files = EmptyMap
    /\ files = new_manifest_files
    /\ project_parser_files = EmptyMap
    /\ pc = "idle"
    /\ proj = 1
    /\ ft = 1
    /\ ext = 1
    /\ source_files = <<>>
    /\ parser_files = <<>>
    /\ trans = EmptyMap
    /\ error = NoError
    /\ runs = 0
    /\ edits = 0
    /\ snap = 0
    /\ last = NoRun
    /\ before = NoRun

Unchecked == [checked |-> FALSE, err |-> NoError]

Init ==
    /\ InitRun
    /\ ydoc = EmptyDoc
    /\ yres = Unchecked

Between == pc \in {"idle", "done", "failed"}

\* The file system changes between two read phases.
WriteFile(f, raw, t) ==
    /\ Between
    /\ edits < MaxEdits
    /\ tree' = [tree EXCEPT ![f] = [present |-> TRUE, raw |-> raw, mtime |-> t,
                                    readable |-> TRUE]]
    /\ tree' # tree
    /\ edits' = edits + 1
    /\ pc' = "idle"
    /\ UNCHANGED <<saved_files, files, project_parser_files, proj, ft, ext,
                   source_files, parser_files, trans, error, runs, snap, last, before, ydoc, yres>>

DeleteFile(f) ==
    /\ Between
    /\ edits < MaxEdits
    /\ tree[f].present
    /\ tree' = [tree EXCEPT ![f].present = FALSE]
    /\ edits' = edits + 1
    /\ pc' = "idle"
    /\ UNCHANGED <<saved_files, files, project_parser_files, proj, ft, ext,
                   source_files, parser_files, trans, error, runs, snap, last, before, ydoc, yres>>

MakeUnreadable(f) ==
    /\ Between
    /\ edits < MaxEdits
    /\ tree[f].present
    /\ tree[f].readable
    /\ tree' = [tree EXCEPT ![f].readable = FALSE]
    /\ edits' = edits + 1
    /\ pc' = "idle"
    /\ UNCHANGED <<saved_files, files, project_parser_files, proj, ft, ext,
                   source_files, parser_files, trans, error, runs, snap, last, before, ydoc, yres>>

\* The manifest of a completed read phase is saved and becomes the next
\* phase's saved_files.
SaveManifest ==
    /\ pc = "done"
    /\ snap # runs
    /\ saved_files' = files
    /\ snap' = runs
    /\ UNCHANGED <<tree, files, project_parser_files, pc, proj, ft, ext, source_files,
                   parser_files, trans, error, runs, edits, last, before, ydoc, yres>>

\* A read phase starts: a new ReadFilesFromFileSystem over an empty files
\* dictionary, and read_files enters its loop over the projects.
ReadFiles ==
    /\ Between
    /\ runs < MaxRuns
    /\ runs' = runs + 1
    /\ files' = new_manifest_files
    /\ project_parser_files' = EmptyMap
    /\ trans' = EmptyMap
    /\ error' = NoError
    /\ proj' = 1
    /\ ft' = 1
    /\ ext' = 1
    /\ source_files' = <<>>
    /\ parser_files' = <<>>
    /\ pc' = "project"
    /\ UNCHANGED <<tree, saved_files, edits, snap, last, before, ydoc, yres>>

\* read_files_for_project, up to its loop: the project's catalog starts empty.
ReadFilesForProject ==
    /\ pc = "project"
    /\ proj <= Len(all_projects)
    /\ project_parser_files' =
          (all_projects[proj].project_name :> EmptyMap) @@ project_parser_files
    /\ ft' = 1
    /\ ext' = 1
    /\ parser_files' = <<>>
    /\ pc' = "parser"
    /\ UNCHANGED <<tree, saved_files, files, proj, source_files, trans, error, runs,
                   edits, snap, last, before, ydoc, yres>>

\* The record of a completed read phase, kept for comparison with the next.
ThisRun ==
    [run |-> runs, snap |-> snap,
     sums |-> [id \in DOMAIN files |-> files[id].checksum],
     kinds |-> [id \in DOMAIN files |-> files[id].parse_file_type],
     saved_mtimes |-> [id \in DOMAIN saved_files |-> saved_files[id].path.modification_time],
     tree |-> tree, trans |-> trans]

\* read_files returns.
ReadFilesReturns ==
    /\ pc = "project"
    /\ proj > Len(all_projects)
    /\ pc' = "done"
    /\ last' = ThisRun
    /\ before' = last
    /\ UNCHANGED <<tree, saved_files, files, project_parser_files, proj, ft, ext,
                   source_files, parser_files, trans, error, runs, edits, snap,
                   ydoc, yres>>

file_type_info == get_file_types_for_project(all_projects[proj])[ParseFileTypes[ft]]

\* An insertion that leaves out the records without contents.
registry_insert_with_contents(fs, sf) ==
    IF HasContents(sf.contents) THEN (file_id(sf.project_name, sf.path) :> sf) @@ fs ELSE fs

\* An insertion that forgets the records inserted before.
registry_insert_alone(fs, sf) == (file_id(sf.project_name, sf.path) :> sf)

\* files[sf.file_id] = sf
registry_insert(fs, sf) == (file_id(sf.project_name, sf.path) :> sf) @@ fs

\* The identity put in front of the list.
catalog_prepend(ids, sf) == <<file_id(sf.project_name, sf.path)>> \o ids

\* The list holding the last identity only.
catalog_replace(ids, sf) == <<file_id(sf.project_name, sf.path)>>

\* parser_files.append(sf.file_id)
catalog_append(ids, sf) == Append(ids, file_id(sf.project_name, sf.path))

\* The end of one turn of the loop over the extensions, with pf the value of
\* parser_files: either the next extension follows, or read_files_for_parser
\* returns pf, read_files_for_project stores it, and the loop over the parse
\* types goes on or the project is done.
NextBatch(pf) ==
    IF ext < Len(file_type_info.extensions)
    THEN /\ ext' = ext + 1
         /\ parser_files' = pf
         /\ pc' = "parser"
         /\ UNCHANGED <<project_parser_files, ft, proj>>
    ELSE /\ project_parser_files' =
               [project_parser_files EXCEPT ![all_projects[proj].project_name] =
                   (file_type_info.parser :> pf) @@ @]
         /\ parser_files' = <<>>
         /\ ext' = 1
         /\ IF ft < Len(ParseFileTypes)
            THEN ft' = ft + 1 /\ pc' = "parser" /\ UNCHANGED proj
            ELSE ft' = 1 /\ proj' = proj + 1 /\ pc' = "project"

\* A call of get_source_files whose records are inserted as they are loaded,
\* so that the ones loaded before an error are in the registry.
GetSourceFilesInsertingAsLoaded ==
    /\ pc = "parser"
    /\ LET r == get_source_files(all_projects[proj], file_type_info.paths,
                                 file_type_info.extensions[ext], ParseFileTypes[ft],
                                 saved_files)
       IN /\ trans' = r.trans
          /\ saved_files' = saved_files_after(saved_files, DOMAIN r.trans)
          /\ IF r.err.raised
             THEN /\ error' = r.err
                  /\ pc' = "failed"
                  /\ files' = [id \in DOMAIN files \cup
                                   {file_id(r.fb_list[i].project_name, r.fb_list[i].path) :
                                       i \in 1..Len(r.fb_list)} |->
                                 IF id \in DOMAIN files THEN files[id]
                                 ELSE r.fb_list[CHOOSE i \in 1..Len(r.fb_list) :
                                        file_id(r.fb_list[i].project_name, r.fb_list[i].path) = id]]
                  /\ UNCHANGED <<source_files, ext, ft, proj, parser_files,
                                 project_parser_files>>
             ELSE /\ UNCHANGED <<error, files>>
                  /\ source_files' = r.fb_list
                  /\ IF r.fb_list = <<>>
                     THEN NextBatch(parser_files)
                     ELSE /\ pc' = "insert"
                          /\ UNCHANGED <<ext, ft, proj, parser_files, project_parser_files>>
    /\ UNCHANGED <<tree, runs, edits, snap, last, before, ydoc, yres>>

\* One call of get_source_files in the loop of read_files_for_parser: the
\* batch is loaded, or the first error ends the read phase.
GetSourceFiles ==
    /\ pc = "parser"
    /\ LET r == get_source_files(all_projects[proj], file_type_info.paths,
                                 file_type_info.extensions[ext], ParseFileTypes[ft],
                                 saved_files)
       IN /\ trans' = r.trans
          /\ saved_files' = saved_files_after(saved_files, DOMAIN r.trans)
          /\ IF r.err.raised
             THEN /\ error' = r.err
                  /\ pc' = "failed"
                  /\ UNCHANGED <<source_files, ext, ft, proj, parser_files,
                                 project_parser_files>>
             ELSE /\ UNCHANGED error
                  /\ source_files' = r.fb_list
                  /\ IF r.fb_list = <<>>
                     THEN NextBatch(parser_files)
                     ELSE /\ pc' = "insert"
                          /\ UNCHANGED <<ext, ft, proj, parser_files, project_parser_files>>
    /\ UNCHANGED <<tree, files, runs, edits, snap, last, before, ydoc, yres>>

\* One turn of the loop "for sf in source_files".
InsertSourceFile ==
    /\ pc = "insert"
    /\ source_files # <<>>
    /\ files' = registry_insert(files, Head(source_files))
    /\ source_files' = Tail(source_files)
    /\ IF Tail(source_files) = <<>>
       THEN NextBatch(catalog_append(parser_files, Head(source_files)))
       ELSE /\ parser_files' = catalog_append(parser_files, Head(source_files))
            /\ UNCHANGED <<pc, ext, ft, proj, project_parser_files>>
    /\ UNCHANGED <<tree, saved_files, trans, error, runs, edits, snap, last, before,
                   ydoc, yres>>

Next ==
    \/ \E f \in Universe : \E raw \in RawsFor(f) : \E t \in MTimesFor(f) :
          WriteFile(f, raw, t)
    \/ \E f \in Universe : DeleteFile(f)
    \/ \E f \in Universe : MakeUnreadable(f)
    \/ SaveManifest
    \/ ReadFiles
    \/ ReadFilesForProject
    \/ GetSourceFiles
    \/ InsertSourceFile
    \/ ReadFilesReturns

Spec == Init /\ [][Next]_vars

\* A schema file is touched after the last edit: its modification time
\* changes, its bytes do not.
TouchFile(f, t) ==
    /\ Between
    /\ edits = MaxEdits
    /\ f.ext \in {".yml", ".yaml"}
    /\ tree[f].present
    /\ t # tree[f].mtime
    /\ tree' = [tree EXCEPT ![f].mtime = t]
    /\ edits' = edits + 1
    /\ pc' = "idle"
    /\ UNCHANGED <<saved_files, files, project_parser_files, proj, ft, ext,
                   source_files, parser_files, trans, error, runs, snap, last, before, ydoc, yres>>

\* The read phases with a touch of a schema file after the edits.
NextTouch ==
    \/ Next
    \/ \E f \in Universe : \E t \in MTimes : TouchFile(f, t)

SpecTouch == Init /\ [][NextTouch]_vars

\* The model files of the tree: .sql and .py files below a model directory.
ModelFiles ==
    {f \in Universe :
        /\ f.ext \in {".sql", ".py"}
        /\ \E i \in 1..Len(ProjectNamed(f.project).model_paths) :
               IsPrefix(ProjectNamed(f.project).model_paths[i], f.dir)}

\* A file diff with one added model file is applied before a run: the file
\* is written to the tree, nothing is changed or deleted.
ApplyFileDiff(f, raw) ==
    /\ Between
    /\ f \in ModelFiles
    /\ ~tree[f].present
    /\ tree' = [tree EXCEPT ![f] = [present |-> TRUE, raw |-> raw, mtime |-> MaxMTime,
                                    readable |-> TRUE]]
    /\ pc' = "idle"
    /\ UNCHANGED <<saved_files, files, project_parser_files, proj, ft, ext, source_files,
                   parser_files, trans, error, runs, edits, snap, last, before, ydoc, yres>>

\* A project that starts without its two .sql models.
InitDiff ==
    /\ tree = [f \in Universe |->
                 [InitTree[f] EXCEPT !.present = ~(f \in ModelFiles /\ f.ext = ".sql")]]
    /\ saved_files = EmptyMap
    /\ files = new_manifest_files
    /\ project_parser_files = EmptyMap
    /\ pc = "idle"
    /\ proj = 1
    /\ ft = 1
    /\ ext = 1
    /\ source_files = <<>>
    /\ parser_files = <<>>
    /\ trans = EmptyMap
    /\ error = NoError
    /\ runs = 0
    /\ edits = 0
    /\ snap = 0
    /\ last = NoRun
    /\ before = NoRun
    /\ ydoc = EmptyDoc
    /\ yres = Unchecked

\* The runs of the project with file diffs that add a model file, and with
\* the deletion of a file as the one other change of the tree.
NextDiff ==
    \/ \E f \in Universe : \E raw \in RawsFor(f) : ApplyFileDiff(f, raw)
    \/ \E f \in Universe : DeleteFile(f)
    \/ SaveManifest
    \/ ReadFiles
    \/ ReadFilesForProject
    \/ GetSourceFiles
    \/ InsertSourceFile
    \/ ReadFilesReturns

SpecDiff == InitDiff /\ [][NextDiff]_vars

(***************************************************************************)
(* validate_yaml on its own: every document of a bounded shape             *)
(***************************************************************************)
MaxElems == 2

ElemKinds == {"str", "dict", "named"}

ElemLists == UNION {[1..n -> ElemKinds] : n \in 0..MaxElems}

Values == {Absent, Mapping, Scalar} \cup {ListOf(es) : es \in ElemLists}

Docs ==
    {Doc(v, m, s, x) : v \in {0, 1, 2}, m \in Values, s \in Values,
                       x \in {Absent, Mapping, Scalar, ListOf(<<"str">>)}}

YamlPath == [dir |-> <<"models">>, name |-> "s", ext |-> ".yml"]

InitYaml ==
    /\ InitRun
    /\ ydoc \in Docs
    /\ yres = Unchecked

ValidateYaml ==
    /\ ~yres.checked
    /\ yres' = [checked |-> TRUE, err |-> validate_yaml(YamlPath, ydoc)]
    /\ UNCHANGED <<runvars, ydoc>>

NextYaml == ValidateYaml

SpecYaml == InitYaml /\ [][NextYaml]_vars

(***************************************************************************)
(* Properties                                                              *)
(***************************************************************************)
\* The identity of a disk file, and the disk file of an identity.
IdOf(f) == <<f.project, [dir |-> f.dir, name |-> f.name, ext |-> f.ext]>>
DiskOf(id) == DiskFile(id[1], id[2].dir, id[2].name, id[2].ext)

\* A read phase is under way or has just ended: tree and saved_files are
\* still the ones it saw.
InRun ==
    \/ pc \in {"project", "parser", "insert", "failed"}
    \/ pc = "done" /\ snap # runs

\* The identities of a project's catalog entry for a parser (none if not stored).
Catalog(p, parser) ==
    IF p \in DOMAIN project_parser_files /\ parser \in DOMAIN project_parser_files[p]
    THEN {project_parser_files[p][parser][i] :
             i \in 1..Len(project_parser_files[p][parser])}
    ELSE {}

Cataloged ==
    UNION {Catalog(p, parser) :
             p \in DOMAIN project_parser_files,
             parser \in {"MacroParser", "ModelParser", "SnapshotParser", "AnalysisParser",
                         "SingularTestParser", "GenericTestParser", "SeedParser",
                         "DocumentationParser", "SchemaParser"}}

\* saved_files holds a record of this identity with the same non-zero
\* modification time as the file has now.
SameNonZeroMTime(id) ==
    /\ id \in DOMAIN saved_files
    /\ tree[DiskOf(id)].mtime # 0
    /\ saved_files[id].path.modification_time = tree[DiskOf(id)].mtime

\* C1: a schema file is Reused (checksum and parsed data of the saved record)
\* exactly when saved_files holds a record of its identity with the same
\* non-zero modification time; otherwise it is Reloaded (checksum of the bytes
\* on disk).
C1_SchemaReuseIff ==
    InRun =>
        \A id \in DOMAIN trans :
            /\ trans[id] = "Reused" <=> SameNonZeroMTime(id)
            /\ trans[id] \in {"Reused", "Reloaded"}
            /\ id \in DOMAIN files =>
                 IF SameNonZeroMTime(id)
                 THEN /\ files[id].checksum = saved_files[id].checksum
                      /\ files[id].dfy = saved_files[id].dfy
                 ELSE files[id].checksum = FileHash_from_contents(tree[DiskOf(id)].raw)

\* C1 witness: a read phase has completed in which a schema file was Reused
\* and its record inserted into the registry.
C1_Witness ==
    /\ pc = "done"
    /\ \E id \in DOMAIN trans : trans[id] = "Reused" /\ id \in DOMAIN files

\* Two successive completed read phases, the second being the latest.
Successive == before.run > 0 /\ last.run = before.run + 1

\* The second one's saved_files was the registry of the first.
Chained == Successive /\ last.snap = before.run

\* The bytes of a file differ between the two read phases.
BytesDiffer(id) == before.tree[DiskOf(id)].raw # last.tree[DiskOf(id)].raw

InBoth == DOMAIN before.sums \cap DOMAIN last.sums

\* C2 (as claimed): whenever a file's bytes differ between two successive read
\* phases, the second record's checksum differs from the first's.
C2_AnyChangeDetected ==
    Chained => \A id \in InBoth : BytesDiffer(id) => last.sums[id] # before.sums[id]

ReusedIn(run, id) == id \in DOMAIN run.trans /\ run.trans[id] = "Reused"

BigSeedIn(run, id) ==
    /\ run.kinds[id] = "Seed"
    /\ file_size(run.tree[DiskOf(id)].raw) > MAXIMUM_SEED_SIZE

\* The read phase computed the record's checksum from the file's bytes.
HashedIn(run, id) == ~ReusedIn(run, id) /\ ~BigSeedIn(run, id)

\* C2 (amended): the change is detected when both read phases computed the
\* checksum from the bytes, that is, neither reused a saved schema record for
\* the file nor took it for a big seed.
C2_ChangeDetectedWhenHashed ==
    Chained =>
        \A id \in InBoth :
            (BytesDiffer(id) /\ HashedIn(before, id) /\ HashedIn(last, id))
                => last.sums[id] # before.sums[id]

\* C2 witness: a file hashed in both read phases whose bytes changed.
C2_Witness ==
    /\ Chained
    /\ \E id \in InBoth :
          /\ BytesDiffer(id) /\ HashedIn(before, id) /\ HashedIn(last, id)
          /\ last.kinds[id] = "Schema"

EmptySchemaFiles ==
    {f \in Universe : /\ f.ext \in {".yml", ".yaml"}
                      /\ tree[f].present
                      /\ strip(tree[f].raw) = <<>>}

\* C3 (as claimed): a schema file that is empty after trimming is in neither
\* the registry nor a catalog, and raises no error.
C3_EmptySchemaNotInserted ==
    InRun =>
        \A f \in EmptySchemaFiles :
            /\ IdOf(f) \notin DOMAIN files
            /\ IdOf(f) \notin Cataloged
            /\ ~(error.raised /\ error.file_path = IdOf(f)[2])

\* C4: every identity of a catalog entry, and of the list being built, is a
\* key of the registry, in every state.
C4_CatalogInRegistry ==
    /\ Cataloged \subseteq DOMAIN files
    /\ \A i \in 1..Len(parser_files) : parser_files[i] \in DOMAIN files

\* C4 witness: a read phase ended by an error, with catalog entries stored.
C4_Witness == pc = "failed" /\ Cataloged # {} /\ error.raised

SameInputs == Successive /\ last.tree = before.tree /\ last.snap = before.snap

\* C6 (as claimed): two read phases over the same tree and saved_files give
\* the same identities and checksums, and every schema file is Reused in both.
C6_IdempotentAllReused ==
    SameInputs =>
        /\ last.sums = before.sums
        /\ \A id \in DOMAIN last.trans : last.trans[id] = "Reused"
        /\ \A id \in DOMAIN before.trans : before.trans[id] = "Reused"

\* The reuse precondition as a read phase saw it.
SameNonZeroMTimeIn(run, id) ==
    /\ id \in DOMAIN run.saved_mtimes
    /\ run.tree[DiskOf(id)].mtime # 0
    /\ run.saved_mtimes[id] = run.tree[DiskOf(id)].mtime

\* C6 (amended): ... give the same identities and checksums, and every schema
\* file takes the same transition in both: Reused if saved_files holds its
\* record with the same non-zero modification time, Reloaded otherwise.
C6_Idempotent ==
    SameInputs =>
        /\ last.sums = before.sums
        /\ last.trans = before.trans
        /\ \A id \in DOMAIN last.trans :
              last.trans[id] = "Reused" <=> SameNonZeroMTimeIn(last, id)

\* C6 witness: two such read phases in which a schema file is Reused.
C6_Witness ==
    /\ SameInputs
    /\ \E id \in DOMAIN last.sums : ReusedIn(last, id) /\ ReusedIn(before, id)

NonSchemaInBoth ==
    {id \in InBoth : last.kinds[id] # "Schema" /\ before.kinds[id] # "Schema"}

\* C7 (as claimed): for a file that is not a schema file, different bytes in
\* two read phases give different checksums.
C7_NonSchemaChecksumSensitive ==
    Successive =>
        \A id \in NonSchemaInBoth : BytesDiffer(id) => last.sums[id] # before.sums[id]

\* C7 (amended): ... unless the file is a seed over the size threshold in both
\* read phases.
C7_NonSchemaNonBigSeedSensitive ==
    Successive =>
        \A id \in NonSchemaInBoth :
            (BytesDiffer(id) /\ ~(BigSeedIn(before, id) /\ BigSeedIn(last, id)))
                => last.sums[id] # before.sums[id]

\* C7 witness: a model file, recorded in saved_files, whose bytes changed
\* while its modification time did not.
C7_Witness ==
    /\ Chained
    /\ \E id \in NonSchemaInBoth :
          /\ last.kinds[id] = "Model"
          /\ BytesDiffer(id)
          /\ before.tree[DiskOf(id)].mtime = last.tree[DiskOf(id)].mtime
          /\ id \in DOMAIN last.saved_mtimes

\* The file lies below one of its project's generic-test directories.
UnderGenericRoot(f) ==
    \E i \in 1..Len(ProjectNamed(f.project).generic_test_paths) :
        IsPrefix(ProjectNamed(f.project).generic_test_paths[i], f.dir)

\* C8 (as claimed): a file below a generic-test directory is never in the
\* SingularTest catalog nor inserted as a singular test, and is in the
\* GenericTest catalog once the read phase is complete.
C8_GenericSingularExclusive ==
    InRun =>
        \A f \in Universe :
            (tree[f].present /\ f.ext = ".sql" /\ UnderGenericRoot(f)) =>
                /\ IdOf(f) \notin Catalog(f.project, "SingularTestParser")
                /\ IdOf(f) \in DOMAIN files => files[IdOf(f)].parse_file_type # "SingularTest"
                /\ pc = "done" => IdOf(f) \in Catalog(f.project, "GenericTestParser")

TypeNames == {ParseFileTypes[i] : i \in 1..Len(ParseFileTypes)}

IndexIn(seq, x) == CHOOSE i \in 1..Len(seq) : seq[i] = x

\* The first of the root directories the identity's file lies below.
RootIdx(info, id) ==
    CHOOSE k \in 1..Len(info.paths) :
        /\ IsPrefix(info.paths[k], id[2].dir)
        /\ \A j \in 1..(k - 1) : ~IsPrefix(info.paths[j], id[2].dir)

ExtIdx(info, id) == IndexIn(info.extensions, id[2].ext)

WalkIdx(id) == IndexIn(WalkOrder, DiskOf(id))

\* The stored catalog sequences, each with its parse type's directories and
\* extensions.
StoredCatalogs ==
    UNION {{[info |-> get_file_types_for_project(ProjectNamed(p))[t],
             ids |-> project_parser_files[p]
                        [get_file_types_for_project(ProjectNamed(p))[t].parser]] :
               t \in {u \in TypeNames :
                        get_file_types_for_project(ProjectNamed(p))[u].parser
                           \in DOMAIN project_parser_files[p]}} :
           p \in DOMAIN project_parser_files}

\* C9 (as claimed): in a catalog sequence all files of an earlier root
\* directory precede all files of a later one.
C9_RootOrderFirst ==
    \A c \in StoredCatalogs :
        \A i, j \in 1..Len(c.ids) :
            i < j => RootIdx(c.info, c.ids[i]) <= RootIdx(c.info, c.ids[j])

\* (extension, root directory, walk position) of i is before that of j.
DiscoveredBefore(info, a, b) ==
    \/ ExtIdx(info, a) < ExtIdx(info, b)
    \/ /\ ExtIdx(info, a) = ExtIdx(info, b)
       /\ \/ RootIdx(info, a) < RootIdx(info, b)
          \/ RootIdx(info, a) = RootIdx(info, b) /\ WalkIdx(a) < WalkIdx(b)

\* C9 (amended): a catalog sequence is in extension order first, then
\* root-directory order, then walk order.
C9_ExtensionOrderFirst ==
    \A c \in StoredCatalogs :
        \A i, j \in 1..Len(c.ids) :
            i < j => DiscoveredBefore(c.info, c.ids[i], c.ids[j])

\* C9 witness: the model catalog holds a .sql file of the first directory, a
\* .sql file of the second and a .py file of the first, in this order.
C9_Witness ==
    /\ pc = "done"
    /\ Len(project_parser_files["root"]["ModelParser"]) = 3
    /\ project_parser_files["root"]["ModelParser"][2][2].dir = <<"models2">>
    /\ project_parser_files["root"]["ModelParser"][3][2].ext = ".py"

Recognized == {schema_file_keys[i] : i \in 1..Len(schema_file_keys)}

\* The document passes the minimal validation.
ValidDoc(dct) ==
    /\ dct.version = 2
    /\ \A k \in Recognized :
          KeyIn(k, dct) =>
              /\ dct.top[k].kind = "list"
              /\ \A i \in 1..Len(dct.top[k].elems) : dct.top[k].elems[i] = "named"

\* The error names a rule that the named key of the document breaks.
RuleBroken(dct, e) ==
    \/ e.rule = "the version is not supported" /\ dct.version # 2
    \/ /\ e.key \in Recognized
       /\ KeyIn(e.key, dct)
       /\ \/ e.rule = "the value is not a list" /\ dct.top[e.key].kind # "list"
          \/ /\ dct.top[e.key].kind = "list"
             /\ \/ /\ e.rule = "a list element is not a dictionary"
                   /\ \E i \in 1..Len(dct.top[e.key].elems) : dct.top[e.key].elems[i] = "str"
                \/ /\ e.rule = "a list element does not have a name attribute"
                   /\ \E i \in 1..Len(dct.top[e.key].elems) : dct.top[e.key].elems[i] = "dict"

\* C10: validate_yaml accepts exactly the documents with an accepted version
\* whose recognized keys hold lists of named dictionaries; a rejection names
\* the file, the key and the rule broken; other keys never matter.
C10_ValidateYaml ==
    yres.checked =>
        /\ ~yres.err.raised <=> ValidDoc(ydoc)
        /\ yres.err.raised =>
              /\ yres.err.file_path = YamlPath
              /\ RuleBroken(ydoc, yres.err)

\* C10 witness: a document with a valid first recognized key and a mapping
\* under an unrecognized key, rejected for a nameless element of a later
\* recognized key.
C10_Witness ==
    /\ yres.checked
    /\ yres.err.raised
    /\ yres.err.key = "sources"
    /\ yres.err.rule = "a list element does not have a name attribute"
    /\ ydoc.top["models"].kind = "list"
    /\ ydoc.top["vars"].kind = "dict"

\* The schema files on disk that a read phase discovers and can read, whose
\* text is not empty after stripping and parses to a document that breaks a
\* rule of the minimal validation.
InvalidSchemaFiles ==
    {f \in Universe :
        /\ f.ext \in {".yml", ".yaml"}
        /\ tree[f].present
        /\ tree[f].readable
        /\ \E i \in 1..Len(ProjectNamed(f.project).all_source_paths) :
               IsPrefix(ProjectNamed(f.project).all_source_paths[i], f.dir)
        /\ strip(tree[f].raw) # <<>>
        /\ DocTruthy(yaml_from_file(strip(tree[f].raw)))
        /\ ~ValidDoc(yaml_from_file(strip(tree[f].raw)))}

\* C11 (as claimed): a read phase over a tree with a structurally invalid
\* schema file never completes, whatever saved_files holds.
C11_InvalidSchemaAlwaysFatal ==
    (InRun /\ pc = "done") => InvalidSchemaFiles = {}

\* C11 (amended): a structurally invalid schema file that is read from disk
\* (Reloaded) ends the read phase with the parsing error for that file and
\* the rule it breaks; a read phase completes over an invalid schema file only
\* if the file was Reused, and then it is neither read nor validated.
C11_InvalidSchemaFatalWhenReloaded ==
    InRun =>
        \A f \in InvalidSchemaFiles :
            /\ pc = "done" => ReusedIn(ThisRun, IdOf(f))
            /\ (IdOf(f) \in DOMAIN trans /\ trans[IdOf(f)] = "Reloaded") =>
                  /\ pc = "failed"
                  /\ error.raised
                  /\ error.file_path = IdOf(f)[2]
                  /\ RuleBroken(yaml_from_file(strip(tree[f].raw)), error)

\* C11 witness: a read phase ended by the parsing error of a schema file of
\* which saved_files holds a record, for a list element without a name.
C11_Witness ==
    /\ pc = "failed"
    /\ error.raised
    /\ error.rule = "a list element does not have a name attribute"
    /\ \E f \in InvalidSchemaFiles : IdOf(f) \in DOMAIN saved_files

\* No key of the catalog leaves it in this step: a project keeps its entry,
\* and a parser's list, once stored, stays as it is unless the project's
\* entry is started anew.
CatalogKeysKept ==
    \A p \in DOMAIN project_parser_files :
        /\ p \in DOMAIN project_parser_files'
        /\ \/ project_parser_files'[p] = EmptyMap
           \/ \A k \in DOMAIN project_parser_files[p] :
                 /\ k \in DOMAIN project_parser_files'[p]
                 /\ project_parser_files'[p][k] = project_parser_files[p][k]

\* What a step of the read phase leaves of the registry and the catalog, and
\* what they hold when read_files returns.
KeysKeptAndRebuilt ==
    /\ runs' = runs =>
          /\ DOMAIN files \subseteq DOMAIN files'
          /\ CatalogKeysKept
          /\ \A p \in DOMAIN project_parser_files :
                project_parser_files[p] # EmptyMap => project_parser_files'[p] # EmptyMap
    /\ runs' # runs => (files' = EmptyMap /\ project_parser_files' = EmptyMap)
    /\ pc' = "done" =>
          /\ \A id \in DOMAIN files' : tree'[DiskOf(id)].present
          /\ \A p \in DOMAIN project_parser_files' :
                \A k \in DOMAIN project_parser_files'[p] :
                   \A i \in 1..Len(project_parser_files'[p][k]) :
                      /\ tree'[DiskOf(project_parser_files'[p][k][i])].present
                      /\ project_parser_files'[p][k][i] \in DOMAIN files'

\* C12: within one read phase no key leaves the registry and no key leaves
\* the catalog, and a project's catalog entry is started once; a read phase
\* starts from an empty registry and catalog, so when it completes every
\* registry key and every catalog entry is a file that is on disk: a file
\* deleted since the previous read phase has neither.
C12_RebuiltNotMerged == [][KeysKeptAndRebuilt]_vars

\* C12 witness: a read phase has completed after a file that the previous
\* read phase had in its registry was deleted, and a record of the registry
\* was overwritten on the way (a file claimed by two parse types).
C12_Witness ==
    /\ pc = "done"
    /\ Successive
    /\ last.run = runs
    /\ \E id \in DOMAIN before.sums :
          /\ ~tree[DiskOf(id)].present
          /\ id \notin DOMAIN files
          /\ id \notin Cataloged
    /\ \E id \in Catalog("dep", "SingularTestParser") :
          files[id].parse_file_type = "GenericTest"

\* C13: no step of a read phase, from its start to its return or its error,
\* changes saved_files: neither its keys nor a field of one of its records.
C13_SavedFilesReadOnly ==
    [][(pc \in {"project", "parser", "insert"} \/ runs' # runs)
          => saved_files' = saved_files]_vars

\* C13 witness: a read phase that Reused a record of saved_files and was
\* then ended by an error.
C13_Witness ==
    /\ pc = "failed"
    /\ error.raised
    /\ \E id \in DOMAIN trans : trans[id] = "Reused" /\ id \in DOMAIN saved_files

\* The seed files on disk: .csv files below a seed directory of their project.
SeedFiles ==
    {f \in Universe :
        /\ f.ext = ".csv"
        /\ tree[f].present
        /\ \E i \in 1..Len(ProjectNamed(f.project).seed_paths) :
               IsPrefix(ProjectNamed(f.project).seed_paths[i], f.dir)}

\* C14: the record of a seed file of at most MAXIMUM_SEED_SIZE bytes carries
\* the checksum of its bytes, the record of a larger one (from one byte over)
\* carries no checksum made from its bytes; either record has empty contents,
\* the parse type Seed and its project's name.
C14_BigSeedThreshold ==
    InRun =>
        \A f \in SeedFiles :
            IdOf(f) \in DOMAIN files =>
                LET sf == files[IdOf(f)] IN
                /\ file_size(tree[f].raw) <= MAXIMUM_SEED_SIZE
                      => sf.checksum = FileHash_from_contents(tree[f].raw)
                /\ file_size(tree[f].raw) >= MAXIMUM_SEED_SIZE + 1
                      => sf.checksum = FileHash_empty
                /\ sf.contents = <<>>
                /\ sf.parse_file_type = "Seed"
                /\ sf.project_name = f.project

\* C14 witness: a seed file of exactly MAXIMUM_SEED_SIZE bytes has its record
\* in the registry of a completed read phase, and the read phase before saw
\* the same file one byte larger.
C14_Witness ==
    /\ pc = "done"
    /\ Successive
    /\ last.run = runs
    /\ \E f \in SeedFiles :
          /\ IdOf(f) \in DOMAIN files
          /\ file_size(tree[f].raw) = MAXIMUM_SEED_SIZE
          /\ IdOf(f) \in DOMAIN before.sums
          /\ file_size(before.tree[f].raw) = MAXIMUM_SEED_SIZE + 1

\* The schema files that both read phases have in their registries, with the
\* same bytes and different modification times in the two.
TouchedSchemaFiles ==
    {id \in InBoth :
        /\ last.kinds[id] = "Schema"
        /\ before.kinds[id] = "Schema"
        /\ ~BytesDiffer(id)
        /\ before.tree[DiskOf(id)].mtime # last.tree[DiskOf(id)].mtime}

\* C15 (as claimed): a schema file with the same bytes and a changed
\* modification time is Reloaded by the second read phase, with the checksum
\* the first read phase gave it.
C15_TouchSameChecksum ==
    Chained =>
        \A id \in TouchedSchemaFiles :
            /\ last.trans[id] = "Reloaded"
            /\ last.sums[id] = before.sums[id]

\* C15 (amended): ... is Reloaded by the second read phase, with the checksum
\* of its bytes, which is the first read phase's checksum if the first read
\* phase had Reloaded the file.
C15_TouchReloadsChecksumOfBytes ==
    Chained =>
        \A id \in TouchedSchemaFiles :
            /\ last.trans[id] = "Reloaded"
            /\ last.sums[id] = FileHash_from_contents(last.tree[DiskOf(id)].raw)
            /\ ~ReusedIn(before, id) => last.sums[id] = before.sums[id]

\* C15 witness: a touched schema file that the first read phase had Reloaded
\* and recorded, so that the second found its record in saved_files.
C15_Witness ==
    /\ Chained
    /\ \E id \in TouchedSchemaFiles :
          /\ ~ReusedIn(before, id)
          /\ id \in DOMAIN last.saved_mtimes
          /\ last.saved_mtimes[id] # 0
          /\ last.tree[DiskOf(id)].mtime # 0

\* The second tree is the first with one model file added and nothing else
\* changed.
AddedModel(t1, t2, f) ==
    /\ f \in ModelFiles
    /\ ~t1[f].present
    /\ t2[f].present
    /\ \A g \in Universe \ {f} : t2[g] = t1[g]

\* C16: when the tree of a completed read phase is the tree of the completed
\* read phase before it with one model file added, its registry has exactly
\* one more key, the added file's identity, which is also in the model
\* catalog of its project, and every key of the earlier registry is kept.
C16_FileDiffAddsOne ==
    (pc = "done" /\ Successive /\ last.run = runs) =>
        \A f \in ModelFiles :
            AddedModel(before.tree, last.tree, f) =>
                /\ IdOf(f) \notin DOMAIN before.sums
                /\ DOMAIN files = DOMAIN before.sums \cup {IdOf(f)}
                /\ Cardinality(DOMAIN files) = Cardinality(DOMAIN before.sums) + 1
                /\ files[IdOf(f)].parse_file_type = "Model"
                /\ IdOf(f) \in Catalog(f.project, "ModelParser")
                /\ \A id \in DOMAIN before.sums : files[id].parse_file_type = before.kinds[id]

\* C16 witness: the third of three read phases, with a model file added
\* before it and another added before the second, of a project that had
\* started without them.
C16_Witness ==
    /\ pc = "done"
    /\ runs = 3
    /\ Successive
    /\ last.run = runs
    /\ edits = 0
    /\ \E f \in ModelFiles : AddedModel(before.tree, last.tree, f)
    /\ Cardinality({f \in ModelFiles : before.tree[f].present}) = 2
    /\ Cardinality(DOMAIN files) = Cardinality(DOMAIN before.sums) + 1

\* The batch being read: its project, parse type and extension.
BatchProject == all_projects[proj].project_name
BatchType == ParseFileTypes[ft]
BatchExtension == file_type_info.extensions[ext]

\* The identity of the file whose load raised the error.
FailingId == <<BatchProject, error.file_path>>

\* The files of the batch being read that are on disk, can be read and would
\* be loaded.
BatchFiles ==
    {f \in Universe :
        /\ f.project = BatchProject
        /\ f.ext = BatchExtension
        /\ tree[f].present
        /\ tree[f].readable
        /\ \E i \in 1..Len(file_type_info.paths) :
               /\ IsPrefix(file_type_info.paths[i], f.dir)
               /\ ~skip_generic(FilePath(f, file_type_info.paths[i]), BatchType)}

\* What the step in which a load fails, and the steps after it, leave.
FailureLeaves ==
    /\ (pc # "failed" /\ pc' = "failed") =>
          /\ error'.raised
          /\ files' = files
          /\ project_parser_files' = project_parser_files
          /\ FailingId' \notin DOMAIN files'
          /\ FailingId' \notin Cataloged'
          /\ \A id \in DOMAIN files' :
                ~(/\ files'[id].project_name = BatchProject'
                  /\ files'[id].parse_file_type = BatchType'
                  /\ id[2].ext = BatchExtension')
          /\ BatchType' \notin {"SingularTest", "GenericTest"} =>
                \A f \in BatchFiles' : IdOf(f) \notin DOMAIN files'
    /\ (pc = "failed" /\ runs' = runs) =>
          /\ pc' \in {"failed", "idle"}
          /\ files' = files
          /\ project_parser_files' = project_parser_files
          /\ error' = error

\* C17: the step in which a load fails (a file that cannot be read, or a
\* schema file that breaks a rule) ends the read phase with the error: it
\* inserts nothing, so the failing file has no registry key and no catalog
\* entry, the registry holds no record of the failing batch (the batch's
\* project, parse type and extension), and what earlier batches inserted
\* stays; no later step of the same read phase follows.
C17_FailureInsertsNothing == [][FailureLeaves]_vars

\* C17 witness: a read phase ended by a file that cannot be read, after
\* another file of the same batch was found and loaded before it.
C17_Witness ==
    /\ pc = "failed"
    /\ error.rule = "cannot read"
    /\ \E f \in BatchFiles : WalkIdx(IdOf(f)) < WalkIdx(FailingId)
    /\ BatchFiles \cap {DiskOf(id) : id \in DOMAIN files} = {}

\* The schema files on disk that meet the reuse condition against saved_files.
ReusableSchemaFiles ==
    {f \in Universe :
        /\ f.ext \in {".yml", ".yaml"}
        /\ tree[f].present
        /\ \E i \in 1..Len(ProjectNamed(f.project).all_source_paths) :
               IsPrefix(ProjectNamed(f.project).all_source_paths[i], f.dir)
        /\ SameNonZeroMTime(IdOf(f))}

\* The first source directory of its project the file lies below.
SourceRoot(f) ==
    LET paths == ProjectNamed(f.project).all_source_paths IN
    paths[CHOOSE k \in 1..Len(paths) :
            /\ IsPrefix(paths[k], f.dir)
            /\ \A j \in 1..(k - 1) : ~IsPrefix(paths[j], f.dir)]

\* C18: for a schema file that is Reused, load_source_file returns a record
\* (never None, never an error) with the checksum and the parsed data of the
\* saved record and without contents, whatever the file on disk holds and
\* whether or not it can be read; the record is in the registry and in the
\* schema catalog when the read phase completes.
C18_ReusedRecord ==
    InRun =>
        \A f \in ReusableSchemaFiles :
            LET id == IdOf(f)
                r == load_source_file(FilePath(f, SourceRoot(f)), "Schema", f.project,
                                      saved_files)
            IN  /\ r.status = "ok"
                /\ r.sf.checksum = saved_files[id].checksum
                /\ r.sf.dfy = saved_files[id].dfy
                /\ r.sf.contents = NoContents
                /\ id \in DOMAIN trans => trans[id] = "Reused"
                /\ id \in DOMAIN files => files[id] = r.sf
                /\ ~(error.raised /\ error.file_path = id[2])
                /\ pc = "done" => (id \in DOMAIN files /\ id \in Catalog(f.project, "SchemaParser"))

\* C18 witness: a completed read phase with the record of a Reused schema
\* file whose text on disk is by now structurally invalid.
C18_Witness ==
    /\ pc = "done"
    /\ InRun
    /\ \E f \in ReusableSchemaFiles \cap InvalidSchemaFiles :
          /\ trans[IdOf(f)] = "Reused"
          /\ IdOf(f) \in DOMAIN files
          /\ ValidDoc(files[IdOf(f)].dfy)

\* The schema records of a dictionary of records that carry parsed data.
ParsedSchemaRecords(fs) ==
    {fs[id] : id \in {i \in DOMAIN fs :
                        fs[i].parse_file_type = "Schema" /\ DocTruthy(fs[i].dfy)}}

\* C19: from an empty saved_files on, with saved_files always the registry
\* of an earlier completed read phase, the parsed data of every schema
\* record of the registry, and of saved_files, passes the minimal
\* validation, also where the record was Reused and not validated again.
C19_ParsedDataValid ==
    /\ \A sf \in ParsedSchemaRecords(files) : ValidDoc(sf.dfy)
    /\ \A sf \in ParsedSchemaRecords(saved_files) : ValidDoc(sf.dfy)

\* C19 witness: the third read phase of a chain, each with the registry of
\* the one before as saved_files, in which a schema record was Reused from a
\* record that had itself been Reused, while the text on disk is by now
\* structurally invalid.
C19_Witness ==
    /\ pc = "done"
    /\ last.run = runs
    /\ Chained
    /\ before.snap = before.run - 1
    /\ before.snap > 0
    /\ \E id \in DOMAIN files :
          /\ ReusedIn(last, id)
          /\ ReusedIn(before, id)
          /\ DocTruthy(files[id].dfy)
          /\ DiskOf(id) \in InvalidSchemaFiles

====
